---- MODULE Spec2Model ----
(***************************************************************************)
(* dashboard.py: a Streamlit script over the table "properties".  The      *)
(* script runs top to bottom at the start of a session and again after     *)
(* every user interaction.  The process keeps the two memoized functions   *)
(* (get_database_connection, load_data); a session keeps the widget values *)
(* and st.session_state.column_order.                                      *)
(***************************************************************************)
EXTENDS Integers, Sequences, FiniteSets, TLC

\* ------------------------------------------------------------------ bounds
\* Largest Price stored in the table.
MaxPrice == 2
\* Largest number of rows of the table.
MaxRows == 2
\* Largest number of widget interactions of one browser session.
MaxSteps == 1

\* --------------------------------------------------------------- the table
\* SQL NULL of a text column (None in the dataframe).
None == "None"
\* SQL NULL of the Price column (NaN in the dataframe), until line 75 fills it.
NullPrice == -1

\* A NULL Price is the price 0 from line 75 on, so the stored prices start at 1.
PriceDomain == {NullPrice} \cup (1..MaxPrice)

\* (Occupancy, Comarca, Barrio) of a row: every column is NULL in some
\* profile, "Shinjuku" is present in one, and two barrios sort before it.
Profiles ==
    { [Occupancy |-> "Vacant", Comarca |-> "Minato",   Barrio |-> "Akasaka"],
      [Occupancy |-> None,     Comarca |-> "Shinjuku", Barrio |-> "Shinjuku"],
      [Occupancy |-> "Rented", Comarca |-> None,       Barrio |-> "Ginza"],
      [Occupancy |-> "Vacant", Comarca |-> "Minato",   Barrio |-> None] }

Properties ==
    { [Price |-> p, Occupancy |-> f.Occupancy, Comarca |-> f.Comarca, Barrio |-> f.Barrio] :
        p \in PriceDomain, f \in Profiles }

RECURSIVE TablesOf(_)
TablesOf(n) ==
    IF n = 0 THEN {{}}
    ELSE LET smaller == TablesOf(n - 1)
         IN  smaller \cup { T \cup {r} : T \in smaller, r \in Properties }

\* What SELECT * FROM properties can return: any rows, at most MaxRows of them.
Tables == TablesOf(MaxRows)

\* ------------------------------------------------------- Python / pandas
\* Code point order of the strings the model uses (Python's sorted()).
StrOrder == << "Akasaka", "Ginza", "Minato", "Rented", "Shinjuku", "Todas", "Unknown", "Vacant" >>

Rank(s) == CHOOSE i \in 1..Len(StrOrder) : StrOrder[i] = s

RECURSIVE sorted(_)
sorted(S) ==
    IF S = {} THEN << >>
    ELSE LET m == CHOOSE x \in S : \A y \in S : Rank(x) <= Rank(y)
         IN  << m >> \o sorted(S \ {m})

RECURSIVE np_unique(_)
np_unique(S) ==
    IF S = {} THEN << >>
    ELSE LET m == CHOOSE x \in S : \A y \in S : x <= y
         IN  << m >> \o np_unique(S \ {m})

Range(s) == { s[i] : i \in 1..Len(s) }

\* seq[i] with Python's 0-based index, a negative one counting from the end.
PyIndex(s, i) == IF i < 0 THEN s[Len(s) + i + 1] ELSE s[i + 1]

\* np.searchsorted(a, v), side='left': how many elements are below v.
searchsorted(a, v) == Cardinality({ i \in 1..Len(a) : a[i] < v })

SetMin(S) == CHOOSE x \in S : \A y \in S : x <= y
SetMax(S) == CHOOSE x \in S : \A y \in S : x >= y

\* ------------------------------------------------ "¥{i:,.0f}" and back
Digit(d) == << "0", "1", "2", "3", "4", "5", "6", "7", "8", "9" >>[d + 1]

RECURSIVE Digits(_)
Digits(n) == IF n < 10 THEN << Digit(n) >> ELSE Append(Digits(n \div 10), Digit(n % 10))

RECURSIVE Grouped(_)
Grouped(ds) ==
    IF Len(ds) <= 3 THEN ds
    ELSE Grouped(SubSeq(ds, 1, Len(ds) - 3)) \o << "," >> \o SubSeq(ds, Len(ds) - 2, Len(ds))

FormatYen(i) ==
    << "¥" >> \o (IF i < 0 THEN << "-" >> ELSE << >>) \o Grouped(Digits(IF i < 0 THEN 0 - i ELSE i))

replace(s, ch) == SelectSeq(s, LAMBDA c : c # ch)

DigitValue(c) == CHOOSE d \in 0..9 : Digit(d) = c

RECURSIVE ParseNat(_)
ParseNat(s) ==
    IF Len(s) = 1 THEN DigitValue(s[1])
    ELSE 10 * ParseNat(SubSeq(s, 1, Len(s) - 1)) + DigitValue(s[Len(s)])

int(s) == IF s[1] = "-" THEN 0 - ParseNat(Tail(s)) ELSE ParseNat(s)

ParseYen(s) == int(replace(replace(s, "¥"), ","))

\* ------------------------------------------------------------ the caches
\* pd.DataFrame(): no rows.
EmptyFrame == {}

\* An entry of st.cache_resource / st.cache_data before the first call.
NoEngine == [hit |-> FALSE, engine |-> FALSE]
NoData == [hit |-> FALSE, df |-> EmptyFrame, errors |-> {}]

\* @st.cache_resource: the returned value (the engine, or None as engine = FALSE)
\* is kept for the life of the process.
cache_resource(engine) == [hit |-> TRUE, engine |-> engine]

\* Faulty variant of cache_data: an empty frame is not kept.
cache_data_unless_empty(df, errors) == [hit |-> df # {}, df |-> df, errors |-> errors]

\* @st.cache_data: whatever load_data returns is kept, the empty frame of a
\* failed load included, with the st.error calls it made (replayed on a hit);
\* the script never clears the entry.
cache_data(df, errors) == [hit |-> TRUE, df |-> df, errors |-> errors]

\* What the outside does when the bodies run: st.secrets or create_engine
\* raise, pd.read_sql (or the split of Coordinates) raises, or the query returns.
Environments == {"no_engine", "query_raises", "up"}

get_database_connection(cache, env) ==
    IF cache.hit
    THEN [cache |-> cache, engine |-> cache.engine, errors |-> {}]
    ELSE [cache |-> cache_resource(env # "no_engine"), engine |-> env # "no_engine",
          errors |-> IF env = "no_engine" THEN {"error_connect"} ELSE {}]

\* rows: what the query returns when it does.
load_data(dcache, ecache, env, rows) ==
    IF dcache.hit
    THEN [data_cache |-> dcache, engine_cache |-> ecache, df |-> dcache.df,
          queries |-> 0, outcome |-> "cached", errors |-> dcache.errors]
    ELSE LET g == get_database_connection(ecache, env)
         IN  IF ~g.engine
             THEN [data_cache |-> cache_data(EmptyFrame, g.errors), engine_cache |-> g.cache,
                   df |-> EmptyFrame, queries |-> 0, outcome |-> "no_engine",
                   errors |-> g.errors]
             ELSE IF env = "query_raises"
             THEN [data_cache |-> cache_data(EmptyFrame, {"error_load"}),
                   engine_cache |-> g.cache,
                   df |-> EmptyFrame, queries |-> 1, outcome |-> "query_raised",
                   errors |-> {"error_load"}]
             ELSE [data_cache |-> cache_data(rows, {}), engine_cache |-> g.cache,
                   df |-> rows, queries |-> 1, outcome |-> "loaded",
                   errors |-> {}]

\* Faulty variant of empty: the test "df is None", never true of a dataframe.
is_none(df) == FALSE

\* df.empty
empty(df) == df = {}

\* ------------------------------------------------------- null handling
fillna(df) ==
    { [r EXCEPT !.Occupancy = IF @ = None THEN "Unknown" ELSE @,
                !.Price = IF @ = NullPrice THEN 0 ELSE @] : r \in df }

\* ------------------------------------------------------- sidebar widgets
comarca_options(df) == << "Todas" >> \o sorted({ r.Comarca : r \in df } \ {None})

barrios_disponibles(df) == sorted({ r.Barrio : r \in df } \ {None})

default_value(barrio, select_all_barrios) ==
    IF barrio = "Shinjuku" THEN TRUE ELSE select_all_barrios

\* The checkbox loop: the barrios whose checkbox is checked, in list order.
checked_barrios(disponibles, checked) == SelectSeq(disponibles, LAMBDA b : b \in checked)

\* Faulty variant of ensure_barrio: the fallback takes the last available barrio.
ensure_barrio_last(seleccionados, disponibles) ==
    IF seleccionados # << >>
    THEN [raises |-> FALSE, warning |-> FALSE, barrios |-> seleccionados]
    ELSE IF "Shinjuku" \in Range(disponibles)
    THEN [raises |-> FALSE, warning |-> TRUE, barrios |-> << "Shinjuku" >>]
    ELSE IF disponibles = << >>
    THEN [raises |-> TRUE, warning |-> TRUE, barrios |-> << >>]
    ELSE [raises |-> FALSE, warning |-> TRUE, barrios |-> << disponibles[Len(disponibles)] >>]

\* Faulty variant of ensure_barrio: only the warning, the list stays empty.
ensure_barrio_warn_only(seleccionados, disponibles) ==
    [raises |-> FALSE, warning |-> seleccionados = << >>, barrios |-> seleccionados]

\* Lines 105-110; barrios_disponibles[0] raises IndexError on an empty list.
ensure_barrio(seleccionados, disponibles) ==
    IF seleccionados # << >>
    THEN [raises |-> FALSE, warning |-> FALSE, barrios |-> seleccionados]
    ELSE IF "Shinjuku" \in Range(disponibles)
    THEN [raises |-> FALSE, warning |-> TRUE, barrios |-> << "Shinjuku" >>]
    ELSE IF disponibles = << >>
    THEN [raises |-> TRUE, warning |-> TRUE, barrios |-> << >>]
    ELSE [raises |-> FALSE, warning |-> TRUE, barrios |-> << disponibles[1] >>]

occupancy_options(df) == sorted({ r.Occupancy : r \in df })

\* --------------------------------------------------------- price slider
num_steps == 100

\* int(nan) as numpy casts it: INT_MIN on x86-64 (here the model's 32-bit one).
NaNCast == -2147483647

\* Consecutive samples a*(b/a)^(k/(num_steps-1)) differ by less than 1: by
\* ln x <= x - 1 the largest step is below hi*(hi-lo) / (lo*(num_steps-1)).
Dense(lo, hi) == hi * (hi - lo) < lo * (num_steps - 1)

\* np.round(np.logspace(log10(a), log10(b), num_steps)).astype(int), as a set.
\* b = 0: log10(0) = -inf, the samples are nan, 0, ..., 0, and the cast of nan
\* is nan_as_int.  Otherwise the samples run from a to b in steps below 1, so
\* every integer between them is the rounding of one.
logspace_rounded(a, b, nan_as_int) ==
    CASE b = 0 -> {nan_as_int, 0}
      [] b > 0 /\ a <= b /\ Dense(a, b) -> a..b
      [] b > 0 /\ a > b /\ Dense(b, a) -> b..a

\* Faulty variant of price_values: min_price and max_price are not appended.
price_values_samples_only(min_price, max_price, nan_as_int) ==
    np_unique(logspace_rounded(min_price + 1, max_price, nan_as_int))

price_values(min_price, max_price, nan_as_int) ==
    np_unique(logspace_rounded(min_price + 1, max_price, nan_as_int) \cup {min_price, max_price})

price_options(values) == [ i \in 1..Len(values) |-> FormatYen(values[i]) ]

default_min_price(values, min_price) ==
    PyIndex(price_options(values), searchsorted(values, min_price))

default_max_price(values, max_price) ==
    PyIndex(price_options(values), searchsorted(values, max_price) - 1)

\* options.index(v)
index_(options, v) == SetMin({ i \in 1..Len(options) : options[i] = v })

\* st.select_slider with a range value: a start after the end is swapped.
select_slider(options, value) ==
    IF index_(options, value[1]) > index_(options, value[2])
    THEN << value[2], value[1] >>
    ELSE value

\* ---------------------------------------------------------------- mask
\* Faulty variant of between: the bounds are exclusive.
between_exclusive(x, left, right) == left < x /\ x < right

between(x, left, right) == left <= x /\ x <= right

filter(df, selected_min_price, selected_max_price, ocupacion, comarca, barrios_seleccionados) ==
    { r \in df :
        /\ between(r.Price, selected_min_price, selected_max_price)
        /\ r.Occupancy \in ocupacion
        /\ (comarca # "Todas" => r.Comarca = comarca)
        /\ (barrios_seleccionados # << >> => r.Barrio \in Range(barrios_seleccionados)) }

\* ------------------------------------------------------------- rendering
\* st.metric value and delta of the four columns; "mean", "len" and "ratio"
\* stand for the formatted aggregate of filtered_df.
metrics(filtered_df) ==
    [ precio       |-> IF ~empty(filtered_df) THEN << "mean", "ratio" >> ELSE << "N/A", "N/A" >>,
      rentabilidad |-> IF ~empty(filtered_df) THEN << "mean", "ratio" >> ELSE << "N/A", "N/A" >>,
      propiedades  |-> IF ~empty(filtered_df) THEN << "len", "ratio" >> ELSE << "0", "N/A" >>,
      periodo      |-> IF ~empty(filtered_df) THEN << "mean", "ratio" >> ELSE << "N/A", "N/A" >> ]

\* Faulty variant of map_tab: the map is drawn whatever filtered_df holds.
map_tab_unguarded(filtered_df) == "map"

\* The tab "Mapa".
map_tab(filtered_df) == IF ~empty(filtered_df) THEN "map" ELSE "map_warning"

\* The detail table.
detail_table(filtered_df) == IF ~empty(filtered_df) THEN "table" ELSE "table_warning"

\* The means of filtered_df that the run evaluates and formats.
aggregates(filtered_df) ==
    IF ~empty(filtered_df)
    THEN {"Price.mean", "Rentability Index.mean", "Payback Period.mean", "lat.mean", "lon.mean"}
    ELSE {}

\* --------------------------------------------------------- column order
initial_column_order ==
    << "Address", "Price", "Size", "Rentability Index", "Payback Period", "Link" >>

\* The position list[i] names, for a Python index i within -len..len-1.
Position(list, i) == IF i < 0 THEN Len(list) + i + 1 ELSE i + 1

\* Faulty variant of swap: list[i] = list[j] alone.
swap_overwrite(list, i, j) ==
    [list EXCEPT ![Position(list, i)] = list[Position(list, j)]]

\* list[i], list[j] = list[j], list[i]
swap(list, i, j) ==
    CASE i < Len(list) /\ j < Len(list) ->
        [list EXCEPT ![Position(list, i)] = list[Position(list, j)],
                     ![Position(list, j)] = list[Position(list, i)]]

\* Faulty variant of up_offered: the first row has an up button too.
up_offered_every_row(i) == i >= 0

\* Whether the button of row i is rendered.
up_offered(i) == i > 0
down_offered(i, column_order) == i < Len(column_order) - 1

NoButton == [kind |-> "none", i |-> 0]

\* The loop over the rows: the one pressed button exchanges two entries.
reorder(column_order, button) ==
    IF button.kind = "up" /\ up_offered(button.i)
    THEN [rerun |-> TRUE, column_order |-> swap(column_order, button.i, button.i - 1)]
    ELSE IF button.kind = "down" /\ down_offered(button.i, column_order)
    THEN [rerun |-> TRUE, column_order |-> swap(column_order, button.i, button.i + 1)]
    ELSE [rerun |-> FALSE, column_order |-> column_order]

\* ------------------------------------------------------------ the script
\* A session before its first run: no widget has a value yet, and
\* 'column_order' is not in st.session_state (the empty sequence).
FreshSession ==
    [ fresh |-> TRUE, comarca |-> "Todas", select_all_barrios |-> FALSE, checked |-> {},
      ocupacion |-> {}, price_range |-> << << >>, << >> >>, column_order |-> << >> ]

\* What a run that never started leaves.
NoRun ==
    [ status |-> "none", loaded |-> {}, df |-> {}, comarca |-> "Todas",
      barrios_disponibles |-> << >>, checked |-> {}, barrios_seleccionados |-> << >>,
      ocupacion |-> {}, min_price |-> 0, max_price |-> 0, price_values |-> << >>,
      price_range |-> << << >>, << >> >>, selected_min_price |-> 0, selected_max_price |-> 0,
      filtered_df |-> {}, rendered |-> {}, metrics |-> metrics({}), aggregates |-> {} ]

\* int(df['Price'].min() or 0), int(df['Price'].max() or 0)
min_price_of(df) == SetMin({ r.Price : r \in df })
max_price_of(df) == SetMax({ r.Price : r \in df })

\* One pass of the script from line 66 on: loaded is what load_data returned,
\* s the session, button the pressed reorder button (if any), errors the
\* st.error calls of load_data.  rerun: the pass ended in st.rerun().
ScriptPass(loaded, s, nan_as_int, button, errors) ==
    LET df == fillna(loaded)
        disponibles == barrios_disponibles(df)
        checked == IF s.fresh
                   THEN { b \in Range(disponibles) : default_value(b, s.select_all_barrios) }
                   ELSE s.checked
        eb == ensure_barrio(checked_barrios(disponibles, checked), disponibles)
        ocupacion == IF s.fresh THEN Range(occupancy_options(df)) ELSE s.ocupacion
        min_price == min_price_of(df)
        max_price == max_price_of(df)
        values == price_values(min_price, max_price, nan_as_int)
        price_range ==
            IF s.fresh
            THEN select_slider(price_options(values),
                               << default_min_price(values, min_price),
                                  default_max_price(values, max_price) >>)
            ELSE s.price_range
        selected_min_price == ParseYen(price_range[1])
        selected_max_price == ParseYen(price_range[2])
        filtered_df == filter(df, selected_min_price, selected_max_price, ocupacion,
                              s.comarca, eb.barrios)
        order == IF s.column_order = << >> THEN initial_column_order ELSE s.column_order
        ro == reorder(order, button)
    IN  IF empty(loaded)
        THEN [ rerun |-> FALSE, session |-> s,
               out |-> [NoRun EXCEPT !.status = "halted", !.loaded = loaded,
                                     !.rendered = errors \cup {"error_no_data"}] ]
        ELSE IF eb.raises
        THEN [ rerun |-> FALSE, session |-> s,
               out |-> [NoRun EXCEPT !.status = "crashed", !.loaded = loaded, !.df = df,
                                     !.comarca = s.comarca,
                                     !.barrios_disponibles = disponibles,
                                     !.rendered = errors \cup {"sidebar_comarca", "sidebar_barrios",
                                                               "warning_barrios"}] ]
        ELSE [ rerun |-> ro.rerun,
               session |-> [s EXCEPT !.fresh = FALSE, !.checked = checked,
                                     !.ocupacion = ocupacion, !.price_range = price_range,
                                     !.column_order = ro.column_order],
               out |-> [ status |-> "done", loaded |-> loaded, df |-> df, comarca |-> s.comarca,
                         barrios_disponibles |-> disponibles, checked |-> checked,
                         barrios_seleccionados |-> eb.barrios,
                         ocupacion |-> ocupacion, min_price |-> min_price,
                         max_price |-> max_price, price_values |-> values,
                         price_range |-> price_range,
                         selected_min_price |-> selected_min_price,
                         selected_max_price |-> selected_max_price,
                         filtered_df |-> filtered_df,
                         rendered |-> errors \cup
                             {"sidebar_comarca", "sidebar_barrios", "sidebar_ocupacion",
                              "sidebar_price", "title", "metrics", "hist_price", "hist_rent",
                              "scatter_rent", "scatter_size", "reorder_buttons",
                              map_tab(filtered_df), detail_table(filtered_df)}
                             \cup (IF eb.warning THEN {"warning_barrios"} ELSE {}),
                         metrics |-> metrics(filtered_df),
                         aggregates |-> aggregates(filtered_df) ] ]

\* A run of the script; st.rerun() starts it over with no button pressed
\* (load_data is memoized by then).
RunScript(loaded, s, nan_as_int, button, errors) ==
    LET pass == ScriptPass(loaded, s, nan_as_int, button, errors)
    IN  IF pass.rerun THEN ScriptPass(loaded, pass.session, nan_as_int, NoButton, errors) ELSE pass

\* ----------------------------------------------------------------- state
VARIABLES
    db,            \* the rows of the table properties
    nan_as_int,    \* how this build casts nan to int
    engine_cache,  \* st.cache_resource entry of get_database_connection
    data_cache,    \* st.cache_data entry of load_data
    queries,       \* how many times the SELECT was executed
    load_outcome,  \* how the one execution of load_data's body ended
    session,       \* widget values and st.session_state of the browser session
    steps,         \* interactions of the session so far
    out,           \* what the last run of the script computed and rendered
    clicked        \* the reorder button the last interaction pressed, if it pressed one

vars == << db, nan_as_int, engine_cache, data_cache, queries, load_outcome, session, steps,
           out, clicked >>

Init ==
    /\ db \in Tables
    /\ nan_as_int \in (IF db # {} /\ max_price_of(fillna(db)) = 0 THEN {NaNCast, 0} ELSE {0})
    /\ engine_cache = NoEngine
    /\ data_cache = NoData
    /\ queries = 0
    /\ load_outcome = "none"
    /\ session = FreshSession
    /\ steps = 0
    /\ out = NoRun
    /\ clicked = NoButton

\* The script runs for session s with `button` pressed; last: the button the
\* interaction behind the run pressed.  The bodies of the
\* memoized functions run on a miss only, so the environment matters then only.
Run(s, button, last, n) ==
    \E env \in (IF data_cache.hit THEN {"up"} ELSE Environments) :
        LET l == load_data(data_cache, engine_cache, env, db)
            r == RunScript(l.df, s, nan_as_int, button, l.errors)
        IN  /\ data_cache' = l.data_cache
            /\ engine_cache' = l.engine_cache
            /\ queries' = queries + l.queries
            /\ load_outcome' = (IF l.outcome = "cached" THEN load_outcome ELSE l.outcome)
            /\ session' = r.session
            /\ out' = r.out
            /\ clicked' = last
            /\ steps' = n
            /\ UNCHANGED << db, nan_as_int >>

\* A browser opens (or reloads) the page: a new session, the same process.
Connect == Run(FreshSession, NoButton, NoButton, 0)

\* The script runs again with nothing changed.
Rerun ==
    /\ out.status # "none"
    /\ Run(session, NoButton, clicked, steps)

SelectComarca(c) ==
    /\ out.status \in {"done", "crashed"}
    /\ steps < MaxSteps
    /\ c # session.comarca
    /\ Run([session EXCEPT !.comarca = c], NoButton, NoButton, steps + 1)

\* The checkbox "Seleccionar todos los barrios".  It is the default value of
\* the other checkboxes: a Streamlit that derives a widget's identity from its
\* arguments resets them to it (reset), one that derives it from the key alone
\* leaves them.  Shinjuku's default never changes.
ToggleSelectAll ==
    /\ out.status \in {"done", "crashed"}
    /\ steps < MaxSteps
    /\ \E reset \in BOOLEAN :
        LET all == ~session.select_all_barrios
            checked == IF reset
                       THEN { b \in Range(out.barrios_disponibles) :
                                IF b = "Shinjuku" THEN b \in session.checked ELSE all }
                       ELSE session.checked
        IN  Run([session EXCEPT !.select_all_barrios = all, !.checked = checked],
                NoButton, NoButton, steps + 1)

ToggleBarrio(b) ==
    /\ out.status = "done"
    /\ steps < MaxSteps
    /\ Run([session EXCEPT !.checked = IF b \in @ THEN @ \ {b} ELSE @ \cup {b}],
           NoButton, NoButton, steps + 1)

ToggleOcupacion(o) ==
    /\ out.status = "done"
    /\ steps < MaxSteps
    /\ Run([session EXCEPT !.ocupacion = IF o \in @ THEN @ \ {o} ELSE @ \cup {o}],
           NoButton, NoButton, steps + 1)

SlidePrice(lo, hi) ==
    /\ out.status = "done"
    /\ steps < MaxSteps
    /\ lo <= hi
    /\ LET options == price_options(out.price_values)
       IN  /\ << options[lo], options[hi] >> # session.price_range
           /\ Run([session EXCEPT !.price_range = << options[lo], options[hi] >>],
                  NoButton, NoButton, steps + 1)

\* A click on the button "↑" (key up_i) or "↓" (key down_i) of row i.
ClickUp(i) ==
    /\ out.status = "done"
    /\ steps < MaxSteps
    /\ up_offered(i)
    /\ Run(session, [kind |-> "up", i |-> i], [kind |-> "up", i |-> i], steps + 1)

ClickDown(i) ==
    /\ out.status = "done"
    /\ steps < MaxSteps
    /\ down_offered(i, session.column_order)
    /\ Run(session, [kind |-> "down", i |-> i], [kind |-> "down", i |-> i], steps + 1)

\* The rows of the reorder list (Python indices).
Rows == 0..(Len(session.column_order) - 1)

\* The positions of the slider.
Stops == 1..Len(out.price_values)

Next ==
    \/ Connect
    \/ Rerun
    \/ \E c \in Range(comarca_options(out.df)) : SelectComarca(c)
    \/ ToggleSelectAll
    \/ \E b \in Range(out.barrios_disponibles) : ToggleBarrio(b)
    \/ \E o \in Range(occupancy_options(out.df)) : ToggleOcupacion(o)
    \/ \E lo \in Stops, hi \in Stops : SlidePrice(lo, hi)
    \/ \E i \in Rows : ClickUp(i)
    \/ \E i \in Rows : ClickDown(i)

Spec == Init /\ [][Next]_vars

\* ================================================================ claims
FailureMessages == {"error_connect", "error_load", "error_no_data"}

\* C1: a failed connection or a raising query makes load_data return the
\* empty frame, no exception reaches the script (the run does not crash), and a
\* run that got an empty frame (zero rows included) shows the error and stops
\* before any widget, metric, chart or table.
C1_EmptyLoadHalts ==
    /\ load_outcome \in {"no_engine", "query_raised"} => empty(data_cache.df)
    /\ (out.status # "none" /\ load_outcome \in {"no_engine", "query_raised"})
          => out.status = "halted"
    /\ (out.status # "none" /\ empty(out.loaded))
          => /\ out.status = "halted"
             /\ "error_no_data" \in out.rendered
             /\ out.rendered \subseteq FailureMessages
             /\ out.filtered_df = {}
             /\ session = FreshSession

C1_Witness ==
    /\ load_outcome = "query_raised"
    /\ out.status = "halted"
    /\ "error_load" \in out.rendered

\* C2: filtered_df is exactly the rows of df with Price in the closed selected
\* range, Occupancy among the selected ones, Comarca equal to the selection
\* unless that is "Todas", and Barrio among the selected barrios.
C2_FilterExact ==
    out.status = "done" =>
        out.filtered_df =
            { r \in out.df :
                /\ r.Price >= out.selected_min_price
                /\ r.Price <= out.selected_max_price
                /\ \E o \in out.ocupacion : r.Occupancy = o
                /\ (out.comarca = "Todas" \/ r.Comarca = out.comarca)
                /\ \E i \in 1..Len(out.barrios_seleccionados) :
                        r.Barrio = out.barrios_seleccionados[i] }

C2_Witness ==
    /\ out.status = "done"
    /\ out.comarca # "Todas"
    /\ out.filtered_df # {}
    /\ out.filtered_df # out.df

\* C3: within one process the SELECT runs at most once; once load_data has
\* returned, every later run gets that same frame (the empty one of a failed
\* load too), nothing is retried and the entry is never dropped.
C3_LoadedOnce ==
    [][ /\ queries' <= 1
        /\ data_cache.hit =>
              /\ data_cache' = data_cache
              /\ engine_cache' = engine_cache
              /\ queries' = queries
              /\ out'.loaded = data_cache.df ]_vars

C3_Witness ==
    /\ data_cache.hit
    /\ db # {}
    /\ empty(data_cache.df)
    /\ queries = 1
    /\ out.status = "halted"

IsPermutation(s, of) ==
    /\ Len(s) = Len(of)
    /\ \A i \in 1..Len(of) : Cardinality({ j \in 1..Len(s) : s[j] = of[i] }) = 1

\* C4: column_order, once in the session state, is a permutation of the six
\* initial columns: length 6, none duplicated, none lost.
C4_ColumnOrderPermutation ==
    /\ out.status = "done" =>
          /\ Len(session.column_order) = 6
          /\ IsPermutation(session.column_order, initial_column_order)
    /\ out.status # "done" => session.column_order = << >>

C4_Witness ==
    /\ out.status = "done"
    /\ session.column_order # initial_column_order
    /\ session.column_order[6] # "Link"

\* after is before with the entries at positions p and q (1-based) exchanged.
Exchanged(before, after, p, q) ==
    /\ Len(after) = Len(before)
    /\ after[p] = before[q]
    /\ after[q] = before[p]
    /\ \A j \in 1..Len(before) : j \notin {p, q} => after[j] = before[j]

\* C5: a click on the up button of row i (there is one only for i > 0)
\* exchanges rows i and i-1, a click on the down button of row i (only for
\* i < last) exchanges rows i and i+1, nothing else moves; a run makes at most
\* one exchange; a filter change or a plain rerun (a run of the same session
\* that no button started) leaves column_order alone.
C5_OneExchange ==
    [][ /\ clicked'.kind = "up" =>
              /\ clicked'.i > 0
              /\ Exchanged(session.column_order, session'.column_order,
                           clicked'.i + 1, clicked'.i)
        /\ clicked'.kind = "down" =>
              /\ clicked'.i < Len(session.column_order) - 1
              /\ Exchanged(session.column_order, session'.column_order,
                           clicked'.i + 1, clicked'.i + 2)
        /\ (clicked'.kind = "none" /\ steps' >= steps /\ session.column_order # << >>) =>
              session'.column_order = session.column_order
        /\ (session.column_order # << >> /\ steps' >= steps) =>
              \/ session'.column_order = session.column_order
              \/ \E p \in 1..5 :
                    Exchanged(session.column_order, session'.column_order, p, p + 1) ]_vars

C5_Witness ==
    /\ out.status = "done"
    /\ clicked = [kind |-> "up", i |-> 1]
    /\ session.column_order =
          << "Price", "Address", "Size", "Rentability Index", "Payback Period", "Link" >>

Available(df) == { r.Barrio : r \in df } \ {None}

\* C6: when some row has a Barrio, every run filters with a non-empty list
\* of available barrios; with no checkbox checked it is ["Shinjuku"] if that is
\* available and else the first available barrio in sorted order.
C6_BarrioSelectionNonEmpty ==
    (out.status \notin {"none", "halted"} /\ Available(out.loaded) # {}) =>
        /\ out.status = "done"
        /\ out.barrios_seleccionados # << >>
        /\ Range(out.barrios_seleccionados) \subseteq Available(out.loaded)
        /\ out.checked = {} =>
              IF "Shinjuku" \in Available(out.loaded)
              THEN out.barrios_seleccionados = << "Shinjuku" >>
              ELSE /\ Len(out.barrios_seleccionados) = 1
                   /\ \A b \in Available(out.loaded) :
                          Rank(out.barrios_seleccionados[1]) <= Rank(b)
        /\ out.checked # {} => Range(out.barrios_seleccionados) = out.checked

C6_Witness ==
    /\ out.status = "done"
    /\ out.checked = {}
    /\ Cardinality(Available(out.loaded)) = 2
    /\ "Shinjuku" \notin Available(out.loaded)

\* C7: with the slider at its default (the first run of a session) the
\* selected range is (minimum price, maximum price) of the dataset, so the
\* price filter excludes no row, the most expensive one included.  Stated for
\* a dataset with two different prices, where the slider has a range.
C7_DefaultRangeIsFullRange ==
    (out.status = "done" /\ steps = 0 /\ out.min_price < out.max_price) =>
        /\ out.selected_min_price = out.min_price
        /\ out.selected_max_price = out.max_price
        /\ \A r \in out.df :
              out.selected_min_price <= r.Price /\ r.Price <= out.selected_max_price

\* C8: for 0 <= min_price < max_price the slider options are strictly
\* increasing, start at the minimum price, end at the maximum price and lie
\* between the two.
C8_PriceOptionsIncreasing ==
    (out.status = "done" /\ 0 <= out.min_price /\ out.min_price < out.max_price) =>
        LET options == price_options(out.price_values)
            n == Len(options)
        IN  /\ n >= 2
            /\ \A i \in 1..(n - 1) : ParseYen(options[i]) < ParseYen(options[i + 1])
            /\ \A i \in 1..n, j \in 1..n : i # j => options[i] # options[j]
            /\ ParseYen(options[1]) = out.min_price
            /\ ParseYen(options[n]) = out.max_price
            /\ \A r \in out.df : out.min_price <= r.Price /\ r.Price <= out.max_price
            /\ \E r \in out.df : r.Price = out.min_price
            /\ \E r \in out.df : r.Price = out.max_price
            /\ \A i \in 1..n :
                  out.min_price <= ParseYen(options[i]) /\ ParseYen(options[i]) <= out.max_price

C8_Witness ==
    /\ out.status = "done"
    /\ out.min_price = 0
    /\ out.max_price >= 2
    /\ Len(out.price_values) >= 3

\* C9: with no row matching, the run still reaches its end: the metrics show
\* "N/A" ("0" for the count) with delta "N/A", the map tab and the detail table
\* show their warnings, and no mean of the empty set is formatted.
C9_EmptyFilterRendersWarnings ==
    (out.status \notin {"none", "halted", "crashed"} /\ out.filtered_df = {}) =>
        /\ out.metrics.precio = << "N/A", "N/A" >>
        /\ out.metrics.rentabilidad = << "N/A", "N/A" >>
        /\ out.metrics.propiedades = << "0", "N/A" >>
        /\ out.metrics.periodo = << "N/A", "N/A" >>
        /\ "map_warning" \in out.rendered /\ "map" \notin out.rendered
        /\ "table_warning" \in out.rendered /\ "table" \notin out.rendered
        /\ {"hist_price", "hist_rent", "scatter_rent", "scatter_size", "reorder_buttons"}
              \subseteq out.rendered
        /\ out.aggregates = {}
        /\ session.column_order # << >>

C9_Witness ==
    /\ out.status = "done"
    /\ out.filtered_df = {}
    /\ out.ocupacion # {}

\* C10: a row with a NULL Barrio is never in filtered_df, and a row with a
\* NULL Comarca is there only under the selection "Todas".
C10_NullBarrioExcluded ==
    out.status = "done" =>
        \A r \in out.filtered_df :
            /\ r.Barrio # None
            /\ r.Comarca = None => out.comarca = "Todas"

C10_Witness ==
    /\ out.status = "done"
    /\ session.select_all_barrios
    /\ out.comarca = "Todas"
    /\ \E r \in out.df : r.Barrio = None
    /\ \E r \in out.filtered_df : r.Comarca = None

====
